---------------------------- MODULE Spec2Model ----------------------------
(***************************************************************************)
(* Model of CoffeeApp.py, the Candour Coffee dashboard.                    *)
(*                                                                         *)
(* Numbers.  Python ints are integers.  The results of true division       *)
(* (3600 / curr_cycle, SHIFT_SEC / BASELINE_CT, ...) are exact rationals   *)
(* [num, den] in lowest terms with den > 0.  The defect rate (a float      *)
(* slider 0.0 .. 5.0 whose step is 0.01) is counted in hundredths of a     *)
(* percent, so 1.2 is 120 and the thresholds 3.0 and 2.0 are 300 and 200.  *)
(* The status labels are written without their leading emoji.              *)
(***************************************************************************)
EXTENDS Integers, Sequences, FiniteSets, TLC

VARIABLES
    pc,           \* main: the section of the script that runs next
    raised,       \* main: the exception that ended this run, or "none"
    globals,      \* the module's globals that main reads (lines 28-36)
    curr_stock,   \* main: local set at line 96
    curr_cycle,   \* main: local set at line 97
    curr_defect,  \* main: local set at line 98, in hundredths of a percent
    page,         \* the st.* calls of sections 1 and 2 made so far in this run
    trend_data,   \* main: the 'Cycle Time (s)' column of trend_data
    sim_data,     \* main: the columns of sim_data
    args,         \* a call of one of the computations on its own: its arguments
    ret           \* ... and what it returned

mainVars == <<pc, raised, globals, curr_stock, curr_cycle, curr_defect, page, trend_data, sim_data>>
callVars == <<args, ret>>
vars == <<pc, raised, globals, curr_stock, curr_cycle, curr_defect, page, trend_data, sim_data, args, ret>>

-----------------------------------------------------------------------------
(* Bounds of the model *)

\* number_input has no min_value or max_value: the stock is any integer.
\* The model lets it range over -NegStockDepth .. MaxStock.
NegStockDepth == 2
MaxStock == 46
\* The defect slider moves in hundredths; the model visits every
\* DefectStride-th position of it.
DefectStride == 20
\* get_kpi_color on its own: values and thresholds within KpiMargin of the
\* cycle-time thresholds 35 and 40.
KpiMargin == 2
\* The capacity computations on their own: shift durations 1 .. MaxShift,
\* cycle times 1 .. MaxCycle, up to MaxStages stages.
MaxShift == 4
MaxCycle == 4
MaxStages == 2

-----------------------------------------------------------------------------
(* Numbers *)

Abs(n) == IF n < 0 THEN -n ELSE n

RECURSIVE GCD(_, _)
GCD(a, b) == IF b = 0 THEN a ELSE GCD(b, a % b)

\* The rational n / d, d # 0, in lowest terms with a positive denominator.
Rat(n, d) ==
    LET g == GCD(Abs(n), Abs(d))
        s == IF d < 0 THEN -1 ELSE 1
    IN  [num |-> (s * n) \div g, den |-> (s * d) \div g]

\* Python's int() of a float: truncation toward zero.
IntTrunc(q) ==
    IF q.num >= 0 THEN q.num \div q.den ELSE -((-q.num) \div q.den)

\* Python's round() of a float: to the nearest integer, halves to even.
PyRound(q) ==
    LET f == q.num \div q.den
        r2 == 2 * (q.num - f * q.den)
    IN  IF r2 < q.den THEN f
        ELSE IF r2 > q.den THEN f + 1
        ELSE IF f % 2 = 0 THEN f ELSE f + 1

\* What an evaluation gives: a value, or the exception it raised.
Value(v) == [exc |-> "none", val |-> v]
Raised(e) == [exc |-> e, val |-> 0]

\* Python's a / b.
TrueDiv(a, b) == IF b = 0 THEN Raised("ZeroDivisionError") ELSE Value(Rat(a, b))

-----------------------------------------------------------------------------
(* Module-level configuration *)

ROP_VAL == 37
EOQ_VAL == 215
SAFETY_STOCK == Rat(25, 2)
BASELINE_CT == 35
OPTIMIZED_CT == 29
AUTOMATED_CT == 12
SHIFT_SEC == 7 * 3600


-----------------------------------------------------------------------------
(* The computations *)

\* A wrong traffic light: the yellow threshold is tested first.
get_kpi_color_yellow_first(value, red, yellow) ==
    IF value >= yellow THEN <<"WARNING", "warning">>
    ELSE IF value >= red THEN <<"CRITICAL", "error">>
    ELSE <<"OPTIMAL", "success">>

\* A wrong traffic light: the comparisons are strict.
get_kpi_color_strict(value, red, yellow) ==
    IF value > red THEN <<"CRITICAL", "error">>
    ELSE IF value > yellow THEN <<"WARNING", "warning">>
    ELSE <<"OPTIMAL", "success">>

\* A wrong traffic light: the warning is shown with the error style.
get_kpi_color_mixed(value, red, yellow) ==
    IF value >= red THEN <<"CRITICAL", "error">>
    ELSE IF value >= yellow THEN <<"WARNING", "error">>
    ELSE <<"OPTIMAL", "success">>

\* get_kpi_color: the pair (status, level).
get_kpi_color(value, red, yellow) ==
    IF value >= red THEN <<"CRITICAL", "error">>
    ELSE IF value >= yellow THEN <<"WARNING", "warning">>
    ELSE <<"OPTIMAL", "success">>

\* The thresholds main passes to get_kpi_color for the cycle time and for
\* the defect rate (3.0 and 2.0, in hundredths).
CYCLE_THRESHOLDS == [red |-> 40, yellow |-> 35]
DEFECT_THRESHOLDS == [red |-> 300, yellow |-> 200]

\* The methods of st that main's getattr(st, level) finds.
StStatusMethods == {"error", "warning", "success"}

\* A wrong throughput: rounded to the nearest integer.
hourly_output_rounded(cycle) ==
    LET q == TrueDiv(3600, cycle)
    IN  IF q.exc # "none" THEN q ELSE Value(PyRound(q.val))

\* hourly_output = int(3600 / curr_cycle)
hourly_output(cycle) ==
    LET q == TrueDiv(3600, cycle)
    IN  IF q.exc # "none" THEN q ELSE Value(IntTrunc(q.val))

\* A wrong capacity: floor division.
DailyCapacityFloor(shift, cycle) ==
    IF cycle = 0 THEN Raised("ZeroDivisionError")
    ELSE Value(Rat(shift \div cycle, 1))

\* One entry of the 'Daily Capacity' list: shift / cycle.
DailyCapacity(shift, cycle) == TrueDiv(shift, cycle)

\* A wrong capacity list: the entries in reverse order.
DailyCapacitiesReversed(shift, cycles) ==
    IF \E i \in DOMAIN cycles : cycles[i] = 0
    THEN Raised("ZeroDivisionError")
    ELSE Value([i \in DOMAIN cycles |->
                   DailyCapacity(shift, cycles[Len(cycles) + 1 - i]).val])

\* The 'Daily Capacity' list: one entry per stage, in the stages' order.
\* The list is built before the DataFrame is: a division that raises
\* leaves no list at all.
DailyCapacities(shift, cycles) ==
    IF \E i \in DOMAIN cycles : DailyCapacity(shift, cycles[i]).exc # "none"
    THEN Raised("ZeroDivisionError")
    ELSE Value([i \in DOMAIN cycles |-> DailyCapacity(shift, cycles[i]).val])

StageNames == <<"Manual (Baseline)", "U-Layout (Optimized)", "Semi-Automation">>
StageCycles == <<globals.BASELINE_CT, globals.OPTIMIZED_CT, globals.AUTOMATED_CT>>

\* One st.* call: the method, what it is about, the label it shows and the
\* numbers it shows.
Call(fn, about, text, nums) == [fn |-> fn, about |-> about, text |-> text, nums |-> nums]

\* A wrong alert: the order grows with the deficit.
ReorderAlertByDeficit(stock) ==
    Call("error", "reorder", "ALERT", <<globals.ROP_VAL, globals.EOQ_VAL + (globals.ROP_VAL - stock)>>)

\* st.error(f"ALERT: Stock hit ROP ({ROP_VAL}kg). Order {EOQ_VAL}kg immediately!")
ReorderAlert(stock) ==
    Call("error", "reorder", "ALERT", <<globals.ROP_VAL, globals.EOQ_VAL>>)

\* A wrong reorder rule: the boundary is exclusive.
InventoryStatusExclusive(stock) ==
    IF stock < globals.ROP_VAL
    THEN <<ReorderAlert(stock)>>
    ELSE <<Call("success", "healthy", "Healthy", <<>>)>>

\* The if / else of section 1.
InventoryStatus(stock) ==
    IF stock <= globals.ROP_VAL
    THEN <<ReorderAlert(stock)>>
    ELSE <<Call("success", "healthy", "Healthy", <<>>)>>


-----------------------------------------------------------------------------
(* main: one run of the script, section by section *)

\* The values number_input and the two sliders can return.
StockRange == (0 - NegStockDepth) .. MaxStock
CycleRange == 10 .. 50
DefectRange == {d \in 0 .. 500 : d % DefectStride = 0}

ModuleGlobals ==
    [ROP_VAL |-> ROP_VAL, EOQ_VAL |-> EOQ_VAL, SAFETY_STOCK |-> SAFETY_STOCK,
     BASELINE_CT |-> BASELINE_CT, OPTIMIZED_CT |-> OPTIMIZED_CT,
     AUTOMATED_CT |-> AUTOMATED_CT, SHIFT_SEC |-> SHIFT_SEC]

NoFrame == [Stage |-> <<>>, DailyCapacity |-> <<>>]
NoCall == [fn |-> "main"]
NoReturn == [done |-> FALSE]

\* The state a run of the script starts from: nothing rendered, the
\* widgets at their defaults (45, 29, 1.2).
RunStart ==
    /\ raised = "none"
    /\ globals = ModuleGlobals
    /\ curr_stock = 45
    /\ curr_cycle = 29
    /\ curr_defect = 120
    /\ page = <<>>
    /\ trend_data = <<>>
    /\ sim_data = NoFrame

Init ==
    /\ pc = "stock_input"
    /\ RunStart
    /\ args = NoCall
    /\ ret = NoReturn

\* curr_stock = st.sidebar.number_input("Current Stock (kg)", value=45)
StockInput ==
    /\ pc = "stock_input"
    /\ \E s \in StockRange : curr_stock' = s
    /\ pc' = "cycle_slider"
    /\ UNCHANGED <<raised, globals, curr_cycle, curr_defect, page, trend_data, sim_data, args, ret>>

\* curr_cycle = st.sidebar.slider("Current Cycle Time (sec)", 10, 50, 29)
CycleSlider ==
    /\ pc = "cycle_slider"
    /\ \E c \in CycleRange : curr_cycle' = c
    /\ pc' = "defect_slider"
    /\ UNCHANGED <<raised, globals, curr_stock, curr_defect, page, trend_data, sim_data, args, ret>>

\* curr_defect = st.sidebar.slider("Defect Rate (%)", 0.0, 5.0, 1.2)
DefectSlider ==
    /\ pc = "defect_slider"
    /\ \E d \in DefectRange : curr_defect' = d
    /\ pc' = "inventory"
    /\ UNCHANGED <<raised, globals, curr_stock, curr_cycle, page, trend_data, sim_data, args, ret>>

\* Section 1: the three columns of the inventory row.
InventorySection ==
    /\ pc = "inventory"
    /\ page' = page
               \o <<Call("metric", "Warehouse Stock", "kg", <<curr_stock>>)>>
               \o InventoryStatus(curr_stock)
               \o <<Call("metric", "Optimal Order (EOQ)", "kg", <<globals.EOQ_VAL>>),
                    Call("metric", "Safety Stock", "kg", <<globals.SAFETY_STOCK>>)>>
    /\ pc' = "production"
    /\ UNCHANGED <<raised, globals, curr_stock, curr_cycle, curr_defect, trend_data, sim_data, args, ret>>

\* status, level = get_kpi_color(...); st.metric(...); getattr(st, level)(...)
\* for one metric: the calls made, and the exception if level names no
\* method of st.
KpiColumn(about, value, thresholds, nums) ==
    LET kpi == get_kpi_color(value, thresholds.red, thresholds.yellow)
        status == kpi[1]
        level == kpi[2]
        metric == Call("metric", about, "", nums)
    IN  IF level \in StStatusMethods
        THEN Value(<<metric, Call(level, about, status, <<>>)>>)
        ELSE [exc |-> "AttributeError", val |-> <<metric>>]

\* Section 2: the cycle time, the defect rate and the hourly throughput.
ProductionSection ==
    /\ pc = "production"
    /\ LET col1 == KpiColumn("Cycle Time", curr_cycle, CYCLE_THRESHOLDS,
                             <<curr_cycle, curr_cycle - globals.BASELINE_CT>>)
           col2 == KpiColumn("Defect Rate", curr_defect, DEFECT_THRESHOLDS, <<curr_defect>>)
           out == hourly_output(curr_cycle)
       IN  IF col1.exc # "none"
           THEN /\ page' = page \o col1.val
                /\ raised' = col1.exc
                /\ pc' = "stopped"
           ELSE IF col2.exc # "none"
           THEN /\ page' = page \o col1.val \o col2.val
                /\ raised' = col2.exc
                /\ pc' = "stopped"
           ELSE IF out.exc # "none"
           THEN /\ page' = page \o col1.val \o col2.val
                /\ raised' = out.exc
                /\ pc' = "stopped"
           ELSE /\ page' = page \o col1.val \o col2.val
                            \o <<Call("metric", "Hourly Throughput", "Units", <<out.val>>)>>
                /\ raised' = "none"
                /\ pc' = "trend"
    /\ UNCHANGED <<globals, curr_stock, curr_cycle, curr_defect, trend_data, sim_data, args, ret>>

\* Section 3: the illustrative series, ending in the current cycle time.
TrendSection ==
    /\ pc = "trend"
    /\ trend_data' = <<30, 29, 29, 31, 35, 38, curr_cycle>>
    /\ pc' = "simulator"
    /\ UNCHANGED <<raised, globals, curr_stock, curr_cycle, curr_defect, page, sim_data, args, ret>>

\* Section 4: sim_data.
SimulatorSection ==
    /\ pc = "simulator"
    /\ LET caps == DailyCapacities(globals.SHIFT_SEC, StageCycles)
       IN  IF caps.exc # "none"
           THEN /\ raised' = caps.exc
                /\ pc' = "stopped"
                /\ UNCHANGED sim_data
           ELSE /\ sim_data' = [Stage |-> StageNames, DailyCapacity |-> caps.val]
                /\ raised' = "none"
                /\ pc' = "done"
    /\ UNCHANGED <<globals, curr_stock, curr_cycle, curr_defect, page, trend_data, args, ret>>

\* A change of a widget runs the script again from the top.
Rerun ==
    /\ pc \in {"done", "stopped"}
    /\ pc' = "stock_input"
    /\ raised' = "none"
    /\ curr_stock' = 45
    /\ curr_cycle' = 29
    /\ curr_defect' = 120
    /\ page' = <<>>
    /\ trend_data' = <<>>
    /\ sim_data' = NoFrame
    /\ UNCHANGED <<globals, args, ret>>

Next ==
    \/ StockInput
    \/ CycleSlider
    \/ DefectSlider
    \/ InventorySection
    \/ ProductionSection
    \/ TrendSection
    \/ SimulatorSection
    \/ Rerun

Spec == Init /\ [][Next]_vars


-----------------------------------------------------------------------------
(* get_kpi_color on its own: two values classified under one pair of      *)
(* thresholds.                                                            *)

KpiDomain == (CYCLE_THRESHOLDS.yellow - KpiMargin) .. (CYCLE_THRESHOLDS.red + KpiMargin)

InitKpi ==
    /\ pc = "call"
    /\ RunStart
    /\ \E v1 \in KpiDomain, v2 \in KpiDomain, r \in KpiDomain, y \in KpiDomain :
           args = [fn |-> "get_kpi_color", values |-> <<v1, v2>>, red |-> r, yellow |-> y]
    /\ ret = [done |-> FALSE, out |-> <<>>]

\* The next of the two calls.
ClassifyCall ==
    /\ pc = "call"
    /\ args.fn = "get_kpi_color"
    /\ ~ret.done
    /\ LET i == Len(ret.out) + 1
           out == Append(ret.out, get_kpi_color(args.values[i], args.red, args.yellow))
       IN  ret' = [done |-> Len(out) = Len(args.values), out |-> out]
    /\ UNCHANGED <<mainVars, args>>

NextKpi == ClassifyCall

SpecKpi == InitKpi /\ [][NextKpi]_vars

-----------------------------------------------------------------------------
(* The capacity list on its own, for a shift duration and positive stage   *)
(* cycle times that are the configured ones or small ones.                 *)

ShiftDomain == (1 .. MaxShift) \cup {SHIFT_SEC}
StageCycleDomain == 1 .. MaxCycle
StageLists ==
    {<<BASELINE_CT, OPTIMIZED_CT, AUTOMATED_CT>>}
    \cup UNION {[1 .. n -> StageCycleDomain] : n \in 1 .. MaxStages}

InitCap ==
    /\ pc = "call"
    /\ RunStart
    /\ \E s \in ShiftDomain, c \in StageLists :
           args = [fn |-> "DailyCapacities", shift |-> s, cycles |-> c]
    /\ ret = NoReturn

\* The capacity list for the shift, and for a shift twice as long.
CapacityCall ==
    /\ pc = "call"
    /\ args.fn = "DailyCapacities"
    /\ ~ret.done
    /\ ret' = [done |-> TRUE,
               once |-> DailyCapacities(args.shift, args.cycles),
               twice |-> DailyCapacities(2 * args.shift, args.cycles)]
    /\ UNCHANGED <<mainVars, args>>

NextCap == CapacityCall

SpecCap == InitCap /\ [][NextCap]_vars


-----------------------------------------------------------------------------
(* Properties *)

\* Section 1 has run in this run of the script.
InventoryRan == pc \in {"production", "trend", "simulator", "done", "stopped"}
\* Section 2 has run to its end.
ProductionRan == pc \in {"trend", "simulator", "done"}

\* The positions on the page of the inventory verdicts, of the status of a
\* metric, and of the throughput figure.
InventoryOutcomes == {i \in DOMAIN page : page[i].about \in {"reorder", "healthy"}}
StatusOf(about) == {i \in DOMAIN page : page[i].about = about /\ page[i].fn # "metric"}
ThroughputShown == {i \in DOMAIN page : page[i].about = "Hourly Throughput"}

\* C1: once section 1 has run, the page holds exactly one inventory
\* verdict; it is the reorder alert (an st.error) exactly when
\* curr_stock <= 37 and the 'Healthy' st.success exactly when
\* curr_stock > 37; before section 1 has run it holds none.
C1_ReorderIffAtOrBelowRop ==
    /\ ~InventoryRan => InventoryOutcomes = {}
    /\ InventoryRan =>
          /\ Cardinality(InventoryOutcomes) = 1
          /\ \A i \in InventoryOutcomes :
                /\ (page[i].about = "reorder" /\ page[i].fn = "error") <=> curr_stock <= 37
                /\ (page[i].about = "healthy" /\ page[i].fn = "success") <=> curr_stock > 37

\* The boundary: the stock is exactly 37 and the alert is on the page.
C1_Witness ==
    /\ InventoryRan
    /\ curr_stock = 37
    /\ \E i \in InventoryOutcomes : page[i].about = "reorder"

\* C3: once section 1 has run with a negative curr_stock, the run has
\* ended with InvalidInput and the page holds no inventory verdict.
C3_NegativeStockRejected ==
    (InventoryRan /\ curr_stock < 0) =>
        /\ raised = "InvalidInput"
        /\ InventoryOutcomes = {}

\* C5: the module's configuration is never changed, every reorder alert
\* names the reorder point 37 and orders exactly 215, whatever the stock,
\* every stock at or below 37 gets that alert, and the EOQ metric shows 215.
C5_OrderIsAlwaysEoq ==
    /\ globals.ROP_VAL = 37
    /\ globals.EOQ_VAL = 215
    /\ globals.SAFETY_STOCK = [num |-> 25, den |-> 2]
    /\ \A i \in DOMAIN page :
          /\ page[i].about = "reorder" => page[i].nums = <<37, 215>>
          /\ page[i].about = "Optimal Order (EOQ)" => page[i].nums = <<215>>
    /\ (InventoryRan /\ curr_stock <= 37) =>
          \E i \in DOMAIN page : page[i].about = "reorder" /\ page[i].nums[2] = 215

\* A stock far below the reorder point: 0 kg, and the order is still 215.
C5_Witness ==
    /\ InventoryRan
    /\ curr_stock = 0
    /\ \E i \in DOMAIN page : page[i].about = "reorder" /\ page[i].nums[2] = 215

\* C8: no run ends with a ZeroDivisionError, and once section 2 has run
\* the page holds exactly one throughput figure n, the largest integer
\* with n * curr_cycle <= 3600; for a cycle time of 29 it is 124.
C8_ThroughputIsFloor ==
    /\ raised # "ZeroDivisionError"
    /\ pc = "production" => curr_cycle \in 10 .. 50
    /\ ProductionRan =>
          /\ Cardinality(ThroughputShown) = 1
          /\ \A i \in ThroughputShown :
                LET n == page[i].nums[1]
                IN  /\ n * curr_cycle <= 3600
                    /\ (n + 1) * curr_cycle > 3600
                    /\ curr_cycle = 29 => n = 124

\* The cycle time is 29 and the figure shown is 124.
C8_Witness ==
    /\ ProductionRan
    /\ curr_cycle = 29
    /\ \E i \in ThroughputShown : page[i].nums[1] = 124

StatusPairs == {<<"CRITICAL", "error">>, <<"WARNING", "warning">>, <<"OPTIMAL", "success">>}

\* C10: every status on the page is one of the three pairs (label, st
\* method), no run ends with an AttributeError from getattr(st, level),
\* once section 2 has run each of the two metrics has exactly one status,
\* and at both call sites the red threshold is at least the yellow one.
C10_StatusPairsConsistent ==
    /\ raised # "AttributeError"
    /\ CYCLE_THRESHOLDS.red >= CYCLE_THRESHOLDS.yellow
    /\ DEFECT_THRESHOLDS.red >= DEFECT_THRESHOLDS.yellow
    /\ \A about \in {"Cycle Time", "Defect Rate"} :
          /\ \A i \in StatusOf(about) : <<page[i].text, page[i].fn>> \in StatusPairs
          /\ ProductionRan => Cardinality(StatusOf(about)) = 1

\* The cycle time shows a warning and the defect rate is critical, both
\* with their own method.
C10_Witness ==
    /\ ProductionRan
    /\ \E i \in StatusOf("Cycle Time") : page[i].text = "WARNING" /\ page[i].fn = "warning"
    /\ \E i \in StatusOf("Defect Rate") : page[i].text = "CRITICAL" /\ page[i].fn = "error"

\* C2: every value classified is CRITICAL when it is at least red
\* (whatever yellow is), else WARNING when it is at least yellow, else
\* OPTIMAL; with yellow 35 and red 40, 40 is CRITICAL, 35 is WARNING and
\* 34 is OPTIMAL.
C2_RedFirstInclusive ==
    args.fn = "get_kpi_color" =>
        \A i \in DOMAIN ret.out :
            LET v == args.values[i]
                status == ret.out[i][1]
            IN  /\ v >= args.red => status = "CRITICAL"
                /\ (v < args.red /\ v >= args.yellow) => status = "WARNING"
                /\ (v < args.red /\ v < args.yellow) => status = "OPTIMAL"
                /\ (args.red = 40 /\ args.yellow = 35) =>
                      /\ v = 40 => status = "CRITICAL"
                      /\ v = 35 => status = "WARNING"
                      /\ v = 34 => status = "OPTIMAL"

\* With yellow 35 and red 40: 40 has been classified CRITICAL and 35 WARNING.
C2_Witness ==
    /\ args.fn = "get_kpi_color"
    /\ ret.done
    /\ args.red = 40 /\ args.yellow = 35
    /\ args.values = <<40, 35>>
    /\ ret.out[1][1] = "CRITICAL"
    /\ ret.out[2][1] = "WARNING"

Severity(status) ==
    CASE status = "OPTIMAL" -> 0
      [] status = "WARNING" -> 1
      [] status = "CRITICAL" -> 2

\* C6: of two values classified under the same thresholds, the smaller
\* one's severity is at most the larger one's.
C6_ClassifierMonotone ==
    (args.fn = "get_kpi_color" /\ ret.done /\ args.values[1] <= args.values[2]) =>
        Severity(ret.out[1][1]) <= Severity(ret.out[2][1])

\* A smaller value classified OPTIMAL and a larger one CRITICAL.
C6_Witness ==
    /\ args.fn = "get_kpi_color"
    /\ ret.done
    /\ args.values[1] < args.values[2]
    /\ ret.out[1][1] = "OPTIMAL"
    /\ ret.out[2][1] = "CRITICAL"

\* The call was of the capacity list, with positive cycle times only.
CapacityReturned == args.fn = "DailyCapacities" /\ ret.done
PositiveCycles == \A i \in DOMAIN args.cycles : args.cycles[i] > 0

\* C7: for positive cycle times the list has one entry per stage and its
\* i-th entry q satisfies q * cycles[i] = shift; for the shift 25200 and
\* the stages 35, 29, 12 it is 720, 25200/29, 2100.
C7_PerStageInOrder ==
    (CapacityReturned /\ PositiveCycles) =>
        /\ ret.once.exc = "none"
        /\ Len(ret.once.val) = Len(args.cycles)
        /\ \A i \in DOMAIN args.cycles :
              /\ ret.once.val[i].den > 0
              /\ ret.once.val[i].num * args.cycles[i] = args.shift * ret.once.val[i].den
        /\ (args.shift = 25200 /\ args.cycles = <<35, 29, 12>>) =>
              ret.once.val = <<[num |-> 720, den |-> 1],
                               [num |-> 25200, den |-> 29],
                               [num |-> 2100, den |-> 1]>>

\* The configured shift and stages, with their three capacities.
C7_Witness ==
    /\ CapacityReturned
    /\ args.shift = 25200
    /\ args.cycles = <<35, 29, 12>>
    /\ Len(ret.once.val) = 3
    /\ ret.once.val[1] = [num |-> 720, den |-> 1]
    /\ ret.once.val[3] = [num |-> 2100, den |-> 1]

\* C9: for positive cycle times, the list for twice the shift has the
\* same length and each entry is exactly twice the entry for the shift.
C9_DoubleShiftDoublesCapacity ==
    (CapacityReturned /\ PositiveCycles) =>
        /\ ret.once.exc = "none"
        /\ ret.twice.exc = "none"
        /\ Len(ret.twice.val) = Len(ret.once.val)
        /\ Len(ret.once.val) = Len(args.cycles)
        /\ \A i \in DOMAIN args.cycles :
              ret.twice.val[i].num * ret.once.val[i].den
                  = 2 * ret.once.val[i].num * ret.twice.val[i].den

\* Two stages, the first with a capacity that is no integer: 1/2, doubled to 1.
C9_Witness ==
    /\ CapacityReturned
    /\ PositiveCycles
    /\ Len(args.cycles) = 2
    /\ ret.once.val[1] = [num |-> 1, den |-> 2]
    /\ ret.twice.val[1] = [num |-> 1, den |-> 1]

=============================================================================
